---------------------------- MODULE Spec2Model ----------------------------
(***************************************************************************)
(* Model of src/src/main.py: the Zep facts service.                        *)
(*                                                                         *)
(* A text (a Python str shown to a user or matched against a pattern) is   *)
(* a sequence of word tokens: "HAS_INDUSTRY" is <<"HAS","INDUSTRY">>,      *)
(* the empty string is <<>>, and `a in b` is "a is a contiguous run of     *)
(* b".  A dict is a function whose DOMAIN is its key set; the company      *)
(* metadata dict, whose iteration order the code depends on, is a          *)
(* sequence of [k, v] entries in insertion order.                          *)
(***************************************************************************)
EXTENDS Integers, Sequences, FiniteSets, TLC

VARIABLES
    zep,          \* what the Zep API holds: user id -> JSON body of a 200 answer
    pc,           \* per request: the node of the workflow it is at
    user,         \* per request: the user_id path parameter
    st,           \* per request: the workflow state dict passed between nodes
    resp,         \* per request: the HTTP response of get_user_facts
    outcome,      \* per request: what the upstream GET produced (history)
    fetchCount,   \* per request: calls of process_user_facts (history)
    enrichCount,  \* per request: calls of enrich_facts (history)
    arg,          \* the state dict handed to a direct call of enrich_facts
    ret,          \* what that call returned
    called        \* whether that call has returned

vars == <<zep, pc, user, st, resp, outcome, fetchCount, enrichCount,
          arg, ret, called>>

pipelineVars == <<zep, pc, user, st, resp, outcome, fetchCount, enrichCount>>
callVars == <<arg, ret, called>>

----------------------------------------------------------------------------
(* Bounds *)

NumRequests == 2
MaxFacts == 2

----------------------------------------------------------------------------
(* Python values *)

Unknown == <<"Unknown">>
NullText == <<"null">>
Space == <<" ">>
EmptyText == <<>>
EmptyDict == <<>>

\* datetime.now().isoformat(): a reading of the clock, named by the event
\* that takes it (request r, or 0 for a direct call, and the function reading)
Reading(r, where) == <<r, where>>

\* d.get(k, default)
Get(d, k, default) == IF k \in DOMAIN d THEN d[k] ELSE default

\* Python truthiness of a str
Truthy(v) == v # EmptyText

\* str.lower(), token by token
LowerTable ==
    [HAS |-> "has", NAME |-> "name", COMPANY |-> "company",
     INDUSTRY |-> "industry", Industry |-> "industry",
     TOW |-> "tow", TRUCK |-> "truck", VEHICLE |-> "vehicle",
     VALUE |-> "value", OWNER |-> "owner", COMPRISES |-> "comprises",
     CONTACT |-> "contact", ROLE |-> "role", ANNUAL |-> "annual",
     REVENUE |-> "revenue", IS |-> "is", LOCATED |-> "located", AT |-> "at",
     LOCATION |-> "location", ADDRESS |-> "address", BUSINESS |-> "business",
     TYPE |-> "type", SERVICE |-> "service", SPLIT |-> "split",
     EMAIL |-> "email", PHONE |-> "phone", OPERATING |-> "operating",
     RADIUS |-> "radius", LIKES |-> "likes",
     Unknown |-> "unknown", Towing |-> "towing", Mechanic |-> "mechanic",
     Acme |-> "acme", Auto |-> "auto", F450 |-> "f450", Jo |-> "jo",
     Doe |-> "doe", Ann |-> "ann"]

Lower(t) == IF t \in DOMAIN LowerTable THEN LowerTable[t] ELSE t

LowerText(s) == [i \in 1..Len(s) |-> Lower(s[i])]

\* needle in hay
Contains(hay, needle) ==
    \E i \in 0..(Len(hay) - Len(needle)) :
        SubSeq(hay, i + 1, i + Len(needle)) = needle

\* the least element of a non-empty set of positions
Least(S) == CHOOSE i \in S : \A j \in S : i <= j

----------------------------------------------------------------------------
(* The company metadata dict: a sequence of [k |-> key, v |-> value].      *)

MetaHas(md, key) == \E i \in 1..Len(md) : md[i].k = key

\* metadata.get(key, default)
MetaGet(md, key, default) ==
    IF MetaHas(md, key)
    THEN md[Least({i \in 1..Len(md) : md[i].k = key})].v
    ELSE default

----------------------------------------------------------------------------
(* enrich_facts and its helper *)

\* state.get("facts", {}).get("facts", [])
facts_list_of(state) == Get(Get(state, "facts", EmptyDict), "facts", <<>>)

\* the positions of the facts that carry company metadata
CompanyPositions(facts_list) ==
    {i \in 1..Len(facts_list) :
        "company" \in DOMAIN Get(facts_list[i], "metadata", EmptyDict)}

\* metadata: the company dict of the first fact that has one, else {}
company_metadata(facts_list) ==
    IF CompanyPositions(facts_list) = {}
    THEN <<>>
    ELSE facts_list[Least(CompanyPositions(facts_list))].metadata.company

\* the positions of the facts whose name contains name_pattern
MatchPositions(facts_list, name_pattern) ==
    {i \in 1..Len(facts_list) :
        Contains(LowerText(Get(facts_list[i], "name", EmptyText)),
                 LowerText(name_pattern))}

\* a value get_fact_value accepts: `value and value != "Unknown"`
Usable(value) == Truthy(value) /\ value # Unknown

\* A faulty variant of FactLookup: the last matching fact is read.
FactLookupLast(facts_list, name_pattern, field_pattern) ==
    LET S == {i \in 1..Len(facts_list) :
                 Contains(LowerText(Get(facts_list[i], "name", EmptyText)),
                          LowerText(name_pattern))}
    IN  Get(facts_list[CHOOSE i \in S : \A j \in S : j <= i], field_pattern, Unknown)

\* A variant of FactLookup that picks a word out of a longer text.
FactLookupParsed(facts_list, name_pattern, field_pattern) ==
    LET S == {i \in 1..Len(facts_list) :
                 Contains(LowerText(Get(facts_list[i], "name", EmptyText)),
                          LowerText(name_pattern))}
        v == Get(facts_list[Least(S)], field_pattern, Unknown)
    IN  IF Len(v) > 1 THEN <<v[2]>> ELSE v

\* next((f.get(field_pattern, "Unknown") for f in facts_list if ...), None):
\* the field of the first matching fact only (the caller tests HasMatch first)
FactLookup(facts_list, name_pattern, field_pattern) ==
    Get(facts_list[Least(MatchPositions(facts_list, name_pattern))],
        field_pattern, Unknown)

HasMatch(facts_list, name_pattern) == MatchPositions(facts_list, name_pattern) # {}

\* the (name_pattern, field_pattern) pairs in the order of the nested loops
PairCount(name_patterns, field_patterns) == Len(name_patterns) * Len(field_patterns)
PairName(name_patterns, field_patterns, k) ==
    name_patterns[((k - 1) \div Len(field_patterns)) + 1]
PairField(name_patterns, field_patterns, k) ==
    field_patterns[((k - 1) % Len(field_patterns)) + 1]

\* the pairs whose lookup yields a usable value
FactHits(facts_list, name_patterns, field_patterns) ==
    {k \in 1..PairCount(name_patterns, field_patterns) :
        /\ HasMatch(facts_list, PairName(name_patterns, field_patterns, k))
        /\ Usable(FactLookup(facts_list,
                             PairName(name_patterns, field_patterns, k),
                             PairField(name_patterns, field_patterns, k)))}

\* the metadata entries get_fact_value falls back to
MetaHits(metadata, name_patterns) ==
    {i \in 1..Len(metadata) :
        /\ \E p \in 1..Len(name_patterns) :
               Contains(LowerText(metadata[i].k), LowerText(name_patterns[p]))
        /\ Truthy(metadata[i].v)
        /\ metadata[i].v # NullText}

get_fact_value(facts_list, metadata, name_patterns, field_patterns, default) ==
    IF FactHits(facts_list, name_patterns, field_patterns) # {}
    THEN LET k == Least(FactHits(facts_list, name_patterns, field_patterns))
         IN  FactLookup(facts_list,
                        PairName(name_patterns, field_patterns, k),
                        PairField(name_patterns, field_patterns, k))
    ELSE IF MetaHits(metadata, name_patterns) # {}
    THEN metadata[Least(MetaHits(metadata, name_patterns))].v
    ELSE default


\* A variant of MetaOr: the fact lookup first, the metadata keys as fallback.
MetaOrFactsFirst(metadata, keys, fallback) ==
    LET hits == {i \in 1..Len(keys) : Truthy(MetaGet(metadata, keys[i], EmptyText))}
    IN  IF fallback # Unknown \/ hits = {} THEN fallback
        ELSE MetaGet(metadata, keys[Least(hits)], EmptyText)

\* metadata.get(k1) or metadata.get(k2) or ... or fallback
MetaOr(metadata, keys, fallback) ==
    LET hits == {i \in 1..Len(keys) : Truthy(MetaGet(metadata, keys[i], EmptyText))}
    IN  IF hits # {} THEN MetaGet(metadata, keys[Least(hits)], EmptyText)
        ELSE fallback

\* the word tokens of a set of texts
TextTokens(texts) == UNION {{t[i] : i \in 1..Len(t)} : t \in texts}

\* the words str(fact) shows: the dict's keys and every text in it
FactTokens(fact) ==
    LET md == Get(fact, "metadata", EmptyDict)
        company == Get(md, "company", <<>>)
    IN  DOMAIN fact \cup DOMAIN md
        \cup TextTokens({fact[f] : f \in DOMAIN fact \ {"metadata"}})
        \cup TextTokens({company[i].k : i \in 1..Len(company)})
        \cup TextTokens({company[i].v : i \in 1..Len(company)})

\* word in str(facts_list).lower()
StrContains(facts_list, word) ==
    \E i \in 1..Len(facts_list) :
        \E t \in FactTokens(facts_list[i]) : Lower(t) = word

\* the name patterns and field patterns of each lookup, as written in the code
NamePatterns ==
    [name             |-> << <<"HAS", "NAME">>, <<"COMPANY", "NAME">> >>,
     industry         |-> << <<"HAS", "INDUSTRY">>, <<"INDUSTRY">> >>,
     revenue          |-> << <<"HAS", "ANNUAL", "REVENUE">>, <<"REVENUE">> >>,
     location         |-> << <<"IS", "LOCATED", "AT">>, <<"LOCATION">>, <<"ADDRESS">> >>,
     type             |-> << <<"HAS", "BUSINESS", "TYPE">>, <<"BUSINESS", "TYPE">> >>,
     service_split    |-> << <<"COMPRISES">>, <<"SERVICE", "SPLIT">> >>,
     owner            |-> << <<"HAS", "CONTACT", "ROLE">>, <<"OWNER">> >>,
     email            |-> << <<"HAS", "EMAIL">>, <<"EMAIL">> >>,
     phone            |-> << <<"HAS", "PHONE">>, <<"PHONE">> >>,
     model            |-> << <<"TOW", "TRUCK">>, <<"VEHICLE">> >>,
     value            |-> << <<"HAS", "VALUE">>, <<"VEHICLE", "VALUE">> >>,
     operating_radius |-> << <<"HAS", "OPERATING", "RADIUS">>, <<"RADIUS">> >>]

TargetFirst == <<"target_node_name", "content">>
ContentFirst == <<"content", "target_node_name">>

FieldPatterns ==
    [name |-> TargetFirst, industry |-> TargetFirst, revenue |-> ContentFirst,
     location |-> ContentFirst, type |-> ContentFirst,
     service_split |-> <<"content">>, owner |-> ContentFirst,
     email |-> TargetFirst, phone |-> TargetFirst, model |-> ContentFirst,
     value |-> TargetFirst, operating_radius |-> TargetFirst]

\* the metadata keys read before the fact lookup, in the order of the `or` chain
MetaKeys ==
    [name             |-> << <<"company", "name">> >>,
     industry         |-> << <<"company", "industry">> >>,
     revenue          |-> << <<"company", "annual", "revenue", "usd">> >>,
     location         |-> << <<"company", "city">> >>,
     type             |-> << <<"company", "sub", "contractor", "costs", "info">> >>,
     email            |-> << <<"contact", "primary", "email">>,
                             <<"company", "primary", "email">> >>,
     phone            |-> << <<"contact", "primary", "phone">>,
                             <<"company", "primary", "phone">> >>,
     value            |-> << <<"company", "vehicle", "value">> >>,
     operating_radius |-> << <<"company", "operating", "radius">> >>]

\* get_fact_value as called for one attribute
Lookup(facts_list, attr) ==
    get_fact_value(facts_list, company_metadata(facts_list),
                   NamePatterns[attr], FieldPatterns[attr], Unknown)

\* metadata.get(...) or get_fact_value(...)
Resolve(facts_list, attr) ==
    MetaOr(company_metadata(facts_list), MetaKeys[attr], Lookup(facts_list, attr))

\* first + " " + last or get_fact_value(...): `+` binds tighter than `or`
Owner(facts_list) ==
    LET metadata == company_metadata(facts_list)
        full == MetaGet(metadata, <<"contact", "first", "name">>, EmptyText)
                \o Space
                \o MetaGet(metadata, <<"contact", "last", "name">>, EmptyText)
    IN  IF Truthy(full) THEN full ELSE Lookup(facts_list, "owner")

\* get_fact_value(...) if word in str(facts_list).lower() else "Unknown"
ServiceSplit(facts_list, word) ==
    IF StrContains(facts_list, word) THEN Lookup(facts_list, "service_split")
    ELSE Unknown

business_info(facts_list) ==
    [name     |-> Resolve(facts_list, "name"),
     industry |-> Resolve(facts_list, "industry"),
     revenue  |-> Resolve(facts_list, "revenue"),
     location |-> Resolve(facts_list, "location"),
     services |->
        [type |-> Resolve(facts_list, "type"),
         service_split |->
            [mechanic |-> ServiceSplit(facts_list, "mechanic"),
             towing   |-> ServiceSplit(facts_list, "towing")]],
     contact |->
        [owner |-> Owner(facts_list),
         email |-> Resolve(facts_list, "email"),
         phone |-> Resolve(facts_list, "phone")],
     equipment |->
        [tow_truck |->
            [model |-> Lookup(facts_list, "model"),
             value |-> Resolve(facts_list, "value"),
             operating_radius |-> Resolve(facts_list, "operating_radius")]]]

\* A faulty variant of enrich_facts: an empty fact list gets an empty summary.
enrich_facts_sparse(state, t) ==
    IF Get(state, "status", "None") # "success"
    THEN state
    ELSE [status           |-> "success",
          business_summary |-> IF facts_list_of(state) = <<>> THEN EmptyDict
                               ELSE business_info(facts_list_of(state)),
          facts            |-> facts_list_of(state),
          fact_count       |-> Len(facts_list_of(state)),
          processed_at     |-> t]

\* A faulty variant of enrich_facts: a failed state is stamped and counted too.
enrich_facts_stamps_errors(state, t) ==
    IF Get(state, "status", "None") # "success"
    THEN [k \in DOMAIN state \cup {"fact_count", "processed_at"} |->
             IF k = "fact_count" THEN 0
             ELSE IF k = "processed_at" THEN t
             ELSE state[k]]
    ELSE [status           |-> "success",
          business_summary |-> business_info(facts_list_of(state)),
          facts            |-> facts_list_of(state),
          fact_count       |-> Len(facts_list_of(state)),
          processed_at     |-> t]

\* enrich_facts(state), t the reading of datetime.now() it takes
enrich_facts(state, t) ==
    IF Get(state, "status", "None") # "success"
    THEN state
    ELSE [status           |-> "success",
          business_summary |-> business_info(facts_list_of(state)),
          facts            |-> facts_list_of(state),
          fact_count       |-> Len(facts_list_of(state)),
          processed_at     |-> t]

----------------------------------------------------------------------------
(* The inputs: facts as the Zep API returns them,                          *)
(* {name, content, target_node_name, metadata?}, every field a str.        *)

IndustryFacts ==
    {[name |-> n, content |-> c, target_node_name |-> t] :
        n \in {<<"HAS", "INDUSTRY">>, <<"INDUSTRY">>},
        c \in {EmptyText, <<"Towing">>},
        t \in {<<"Auto">>, Unknown}}
    \cup {[name |-> <<"has", "Industry">>, target_node_name |-> <<"Acme">>]}

TruckFacts ==
    {[name |-> n, content |-> c, target_node_name |-> <<"Acme">>] :
        n \in {<<"TOW", "TRUCK">>, <<"VEHICLE", "VALUE">>},
        c \in {<<"owns", "F450", "truck">>, <<"F450">>}}

OtherFacts ==
    {[name |-> <<"OWNER">>, content |-> <<"Ann">>, target_node_name |-> <<"Acme">>],
     [name |-> <<"COMPRISES">>, content |-> <<"Mechanic", "60">>,
      target_node_name |-> <<"Acme">>],
     [name |-> <<"COMPRISES">>, content |-> <<"Towing", "40">>,
      target_node_name |-> <<"Acme">>],
     [name |-> <<"LIKES">>, content |-> <<"coffee">>, target_node_name |-> <<"Acme">>],
     [content |-> <<"coffee">>]}

FullCompany ==
    << [k |-> <<"company", "name">>, v |-> <<"Acme">>],
       [k |-> <<"company", "industry">>, v |-> <<"Auto">>],
       [k |-> <<"company", "annual", "revenue", "usd">>, v |-> <<"500000">>],
       [k |-> <<"company", "city">>, v |-> <<"Austin">>],
       [k |-> <<"company", "sub", "contractor", "costs", "info">>, v |-> <<"none">>],
       [k |-> <<"contact", "first", "name">>, v |-> <<"Jo">>],
       [k |-> <<"contact", "last", "name">>, v |-> <<"Doe">>],
       [k |-> <<"contact", "primary", "email">>, v |-> <<"jo@acme">>],
       [k |-> <<"company", "primary", "email">>, v |-> <<"info@acme">>],
       [k |-> <<"company", "primary", "phone">>, v |-> <<"555">>],
       [k |-> <<"company", "vehicle", "value">>, v |-> <<"90000">>],
       [k |-> <<"company", "operating", "radius">>, v |-> <<"50">>] >>

CompanyDicts ==
    {<<>>,
     FullCompany,
     << [k |-> <<"company", "industry">>, v |-> <<"Auto">>] >>,
     << [k |-> <<"company", "industry">>, v |-> EmptyText],
        [k |-> <<"company", "name">>, v |-> NullText] >>,
     << [k |-> <<"contact", "first", "name">>, v |-> <<"Jo">>] >>,
     << [k |-> <<"industry", "code">>, v |-> NullText],
        [k |-> <<"vehicle", "model">>, v |-> <<"F450">>] >>}

MetaFacts ==
    {[name |-> <<"HAS", "NAME">>, content |-> EmptyText,
      target_node_name |-> <<"Acme">>, metadata |-> m] :
        m \in {EmptyDict} \cup {[company |-> c] : c \in CompanyDicts}}

Facts == IndustryFacts \cup TruckFacts \cup OtherFacts \cup MetaFacts

FactLists == UNION {[1..n -> Facts] : n \in 0..MaxFacts}

UserIds == {"u1", "u2"}

\* the states process_user_facts can hand to enrich_facts
SuccessStates ==
    {[facts |-> [facts |-> fl], user_id |-> "u1", status |-> "success",
      timestamp |-> Reading(0, "query_facts")] : fl \in FactLists}
    \cup {[facts |-> EmptyDict, user_id |-> "u1", status |-> "success",
           timestamp |-> Reading(0, "query_facts")]}

ErrorStates ==
    {[user_id |-> "u1", status |-> "error", error |-> e, timestamp |-> Reading(0, "query_facts")] :
        e \in {<<"User", "u1", "not found">>, <<"Zep API error:", "overloaded">>}}

EnrichInputs == SuccessStates \cup ErrorStates

----------------------------------------------------------------------------
(* A direct call of enrich_facts on an arbitrary input state.              *)

Requests == 1..NumRequests

NoResponse == [http_status |-> 0, body |-> EmptyDict]

\* no upstream call made yet
NoUpstream == [kind |-> "none", status_code |-> 0, json |-> EmptyDict, text |-> EmptyText]

InitPipelineVars ==
    /\ zep = [u \in UserIds |-> [facts |-> <<>>]]
    /\ pc = [r \in Requests |-> "idle"]
    /\ user = [r \in Requests |-> "u1"]
    /\ st = [r \in Requests |-> EmptyDict]
    /\ resp = [r \in Requests |-> NoResponse]
    /\ outcome = [r \in Requests |-> NoUpstream]
    /\ fetchCount = [r \in Requests |-> 0]
    /\ enrichCount = [r \in Requests |-> 0]

InitEnrich ==
    /\ InitPipelineVars
    /\ arg \in EnrichInputs
    /\ ret = EmptyDict
    /\ called = FALSE

EnrichCall ==
    /\ ~called
    /\ ret' = enrich_facts(arg, Reading(0, "enrich_facts"))
    /\ called' = TRUE
    /\ UNCHANGED <<arg, pipelineVars>>

NextEnrich == EnrichCall

SpecEnrich == InitEnrich /\ [][NextEnrich]_vars

----------------------------------------------------------------------------
(* The HTTP service: GET /api/users/{user_id}/facts, one workflow run per  *)
(* request, the requests interleaving at the awaits.                       *)

\* the JSON bodies the Zep API answers a 200 with
ZepBodies ==
    {EmptyDict,
     [facts |-> <<>>],
     [facts |-> << [name |-> <<"TOW", "TRUCK">>, content |-> <<"owns", "F450", "truck">>,
                    target_node_name |-> <<"Acme">>] >>],
     [facts |-> << [name |-> <<"HAS", "INDUSTRY">>, content |-> <<"Towing">>,
                    target_node_name |-> <<"Auto">>],
                   [name |-> <<"HAS", "NAME">>, content |-> EmptyText,
                    target_node_name |-> <<"Acme">>,
                    metadata |-> [company |-> FullCompany]] >>]}

\* what `await client.get(url)` can produce for a user
Upstream(user_id) ==
    {[kind |-> "response", status_code |-> 200, json |-> zep[user_id], text |-> EmptyText],
     [kind |-> "response", status_code |-> 404, json |-> EmptyDict,
      text |-> <<"no", "such", "user">>],
     [kind |-> "response", status_code |-> 503, json |-> EmptyDict,
      text |-> <<"overloaded">>],
     [kind |-> "http_error", status_code |-> 0, json |-> EmptyDict,
      text |-> <<"timed", "out">>]}

\* query_user_facts: the JSON body, or a raised ZepAPIError
query_user_facts(user_id, up) ==
    IF up.kind = "http_error"
    THEN [raised |-> TRUE, value |-> EmptyDict,
          message |-> <<"HTTP error occurred:">> \o up.text, status_code |-> 500]
    ELSE IF up.status_code = 404
    THEN [raised |-> TRUE, value |-> EmptyDict,
          message |-> <<"User", user_id, "not found">>, status_code |-> 404]
    ELSE IF up.status_code # 200
    THEN [raised |-> TRUE, value |-> EmptyDict,
          message |-> <<"Zep API error:">> \o up.text, status_code |-> up.status_code]
    ELSE [raised |-> FALSE, value |-> up.json, message |-> EmptyText, status_code |-> 200]

process_user_facts(state, up, t) ==
    LET q == query_user_facts(state.user_id, up)
    IN  IF ~q.raised
        THEN [facts |-> q.value, user_id |-> state.user_id, status |-> "success",
              timestamp |-> t]
        ELSE [user_id |-> state.user_id, status |-> "error", error |-> q.message,
              timestamp |-> t]

\* A faulty variant of create_workflow: the finish point on the first node.
create_workflow_finish_early ==
    [nodes |-> {"query_facts", "enrich_facts"},
     edges |-> {<<"query_facts", "enrich_facts">>},
     entry_point |-> "query_facts",
     finish_point |-> "query_facts"]

create_workflow ==
    [nodes |-> {"query_facts", "enrich_facts"},
     edges |-> {<<"query_facts", "enrich_facts">>},
     entry_point |-> "query_facts",
     finish_point |-> "enrich_facts"]

\* the node the compiled graph runs after node n
NextNode(n) ==
    IF n = create_workflow.finish_point THEN "END"
    ELSE CHOOSE m \in create_workflow.nodes : <<n, m>> \in create_workflow.edges

\* A faulty variant of StoreState: one state dict shared by every invocation.
StoreStateShared(states, r, new) == [q \in DOMAIN states |-> new]

\* each ainvoke owns its state: a node's return value replaces the state of
\* its own invocation only
StoreState(states, r, new) == [states EXCEPT ![r] = new]

\* A faulty variant of get_user_facts_response: a failed result is returned
\* as a body instead of raised.
get_user_facts_returns_error(result, t) ==
    IF Get(result, "status", "None") # "success"
    THEN [http_status |-> 200,
          body |-> [status |-> "error",
                    error |-> Get(result, "error", <<"Unknown error occurred">>),
                    timestamp |-> t]]
    ELSE [http_status |-> 200,
          body |-> [status |-> "success",
                    business_summary |-> Get(result, "business_summary", EmptyDict),
                    fact_count |-> Get(result, "fact_count", 0),
                    timestamp |-> t]]

\* the tail of get_user_facts: the result of ainvoke turned into a response
get_user_facts_response(result, t) ==
    IF Get(result, "status", "None") # "success"
    THEN [http_status |-> 500,
          body |-> [detail |-> <<"Error retrieving user facts:">>
                               \o Get(result, "error", <<"Unknown error occurred">>)]]
    ELSE [http_status |-> 200,
          body |-> [status |-> "success",
                    business_summary |-> Get(result, "business_summary", EmptyDict),
                    fact_count |-> Get(result, "fact_count", 0),
                    timestamp |-> t]]

Init ==
    /\ zep \in [UserIds -> ZepBodies]
    /\ pc = [r \in Requests |-> "idle"]
    /\ user = [r \in Requests |-> "u1"]
    /\ st = [r \in Requests |-> EmptyDict]
    /\ resp = [r \in Requests |-> NoResponse]
    /\ outcome = [r \in Requests |-> NoUpstream]
    /\ fetchCount = [r \in Requests |-> 0]
    /\ enrichCount = [r \in Requests |-> 0]
    /\ arg = EmptyDict
    /\ ret = EmptyDict
    /\ called = FALSE

\* a request arrives: workflow.ainvoke({"user_id": str(user_id)})
Request(r) ==
    /\ pc[r] = "idle"
    /\ \E u \in UserIds :
        /\ user' = [user EXCEPT ![r] = u]
        /\ st' = StoreState(st, r, [user_id |-> u])
    /\ pc' = [pc EXCEPT ![r] = create_workflow.entry_point]
    /\ UNCHANGED <<zep, resp, outcome, fetchCount, enrichCount, callVars>>

\* node query_facts: the upstream answer arrives and process_user_facts returns
ProcessUserFacts(r) ==
    /\ pc[r] = "query_facts"
    /\ \E up \in Upstream(st[r].user_id) :
        /\ st' = StoreState(st, r, process_user_facts(st[r], up, Reading(r, "query_facts")))
        /\ outcome' = [outcome EXCEPT ![r] = up]
    /\ fetchCount' = [fetchCount EXCEPT ![r] = @ + 1]
    /\ pc' = [pc EXCEPT ![r] = NextNode("query_facts")]
    /\ UNCHANGED <<zep, user, resp, enrichCount, callVars>>

\* node enrich_facts
EnrichFacts(r) ==
    /\ pc[r] = "enrich_facts"
    /\ st' = StoreState(st, r, enrich_facts(st[r], Reading(r, "enrich_facts")))
    /\ enrichCount' = [enrichCount EXCEPT ![r] = @ + 1]
    /\ pc' = [pc EXCEPT ![r] = NextNode("enrich_facts")]
    /\ UNCHANGED <<zep, user, resp, outcome, fetchCount, callVars>>

\* ainvoke has returned: get_user_facts answers
Respond(r) ==
    /\ pc[r] = "END"
    /\ resp' = [resp EXCEPT ![r] = get_user_facts_response(st[r], Reading(r, "get_user_facts"))]
    /\ pc' = [pc EXCEPT ![r] = "done"]
    /\ UNCHANGED <<zep, user, st, outcome, fetchCount, enrichCount, callVars>>

Next ==
    \E r \in Requests :
        \/ Request(r)
        \/ ProcessUserFacts(r)
        \/ EnrichFacts(r)
        \/ Respond(r)

Spec == Init /\ [][Next]_vars

----------------------------------------------------------------------------
(* Properties of enrich_facts, checked under SpecEnrich                    *)

\* the leaves of a business summary, by attribute
Leaves(bs) ==
    [name |-> bs.name, industry |-> bs.industry, revenue |-> bs.revenue,
     location |-> bs.location, type |-> bs.services.type,
     mechanic |-> bs.services.service_split.mechanic,
     towing |-> bs.services.service_split.towing,
     owner |-> bs.contact.owner, email |-> bs.contact.email,
     phone |-> bs.contact.phone, model |-> bs.equipment.tow_truck.model,
     value |-> bs.equipment.tow_truck.value,
     operating_radius |-> bs.equipment.tow_truck.operating_radius]

LeafNames ==
    {"name", "industry", "revenue", "location", "type", "mechanic", "towing",
     "owner", "email", "phone", "model", "value", "operating_radius"}

\* the lookup whose patterns a leaf is resolved with
PatternsOf(leaf) ==
    IF leaf \in {"mechanic", "towing"} THEN "service_split" ELSE leaf

\* the call has returned for a success state
Enriched == called /\ arg.status = "success"

ArgFacts == facts_list_of(arg)
ArgMeta == company_metadata(ArgFacts)
RetLeaves == Leaves(ret.business_summary)

\* the facts whose name contains one of the attribute's name patterns
AnyMatch(facts_list, attr) ==
    UNION {MatchPositions(facts_list, NamePatterns[attr][p]) :
              p \in 1..Len(NamePatterns[attr])}

\* the usable values the matching facts hold in the attribute's fields
SuppliedValues(facts_list, attr) ==
    {v \in {Get(facts_list[i], FieldPatterns[attr][f], Unknown) :
                i \in AnyMatch(facts_list, attr),
                f \in 1..Len(FieldPatterns[attr])} : Usable(v)}

\* the attribute's metadata keys that hold a non-empty value, by position
TruthyKeys(metadata, attr) ==
    {i \in 1..Len(MetaKeys[attr]) :
        MetaHas(metadata, MetaKeys[attr][i])
        /\ MetaGet(metadata, MetaKeys[attr][i], EmptyText) # EmptyText}

\* C1 as stated: metadata is only a fallback; whenever a matching fact
\* supplies a usable value, the attribute's value is a fact's value.
C1_FactsBeforeMetadata ==
    Enriched =>
        \A attr \in DOMAIN MetaKeys :
            SuppliedValues(ArgFacts, attr) # {} =>
                RetLeaves[attr] \in SuppliedValues(ArgFacts, attr)

\* C1 amended: the metadata keys take precedence over the facts; the first
\* of the attribute's metadata keys holding a non-empty value gives the
\* attribute's value whatever the facts hold, and only when none does is the
\* attribute the result of the fact lookup get_fact_value.
C1_MetadataBeforeFacts ==
    Enriched =>
        \A attr \in DOMAIN MetaKeys :
            IF TruthyKeys(ArgMeta, attr) # {}
            THEN RetLeaves[attr] =
                     MetaGet(ArgMeta, MetaKeys[attr][Least(TruthyKeys(ArgMeta, attr))],
                             EmptyText)
            ELSE RetLeaves[attr] = Lookup(ArgFacts, attr)

\* a fact supplies an industry and the metadata holds another one
C1_Witness ==
    /\ Enriched
    /\ TruthyKeys(ArgMeta, "industry") # {}
    /\ SuppliedValues(ArgFacts, "industry") # {}
    /\ RetLeaves["industry"] \notin SuppliedValues(ArgFacts, "industry")
    /\ RetLeaves["industry"] = <<"Auto">>

\* C2: for a success state the business summary has one fixed shape.
C2_FixedShape ==
    Enriched =>
        /\ "business_summary" \in DOMAIN ret
        /\ DOMAIN ret.business_summary =
               {"name", "industry", "revenue", "location", "services", "contact",
                "equipment"}
        /\ DOMAIN ret.business_summary.services = {"type", "service_split"}
        /\ DOMAIN ret.business_summary.services.service_split = {"mechanic", "towing"}
        /\ DOMAIN ret.business_summary.contact = {"owner", "email", "phone"}
        /\ DOMAIN ret.business_summary.equipment = {"tow_truck"}
        /\ DOMAIN ret.business_summary.equipment.tow_truck =
               {"model", "value", "operating_radius"}

\* a full-length fact list, one fact carrying the full company metadata
C2_Witness ==
    /\ Enriched
    /\ Len(ArgFacts) = MaxFacts
    /\ ArgMeta = FullCompany
    /\ ret.fact_count = MaxFacts
    /\ ret.business_summary.name = <<"Acme">>

\* the attributes whose value is the fact lookup's result for this input:
\* no metadata key of theirs holds a value (model has no metadata key)
FromLookup(attr) ==
    attr = "model" \/ (attr \in DOMAIN MetaKeys /\ TruthyKeys(ArgMeta, attr) = {})

LookupAttrs == DOMAIN MetaKeys \cup {"model"}

\* the value of field f of the earliest fact matching pattern p of attr
FirstMatchField(facts_list, attr, p, f) ==
    Get(facts_list[Least(MatchPositions(facts_list, NamePatterns[attr][p]))],
        FieldPatterns[attr][f], Unknown)

\* pattern p and field f of attr yield a usable value
Yields(facts_list, attr, p, f) ==
    /\ MatchPositions(facts_list, NamePatterns[attr][p]) # {}
    /\ Usable(FirstMatchField(facts_list, attr, p, f))

\* C3 as stated: the value is a field of the earliest fact, in list order,
\* whose name contains one of the attribute's patterns; a later fact is never
\* preferred over an earlier matching fact.
C3_EarliestMatchingFact ==
    Enriched =>
        \A attr \in LookupAttrs :
            (FromLookup(attr) /\ SuppliedValues(ArgFacts, attr) # {}
             /\ RetLeaves[attr] \in SuppliedValues(ArgFacts, attr)) =>
                \E f \in 1..Len(FieldPatterns[attr]) :
                    RetLeaves[attr] =
                        Get(ArgFacts[Least(AnyMatch(ArgFacts, attr))],
                            FieldPatterns[attr][f], Unknown)

\* C3 amended: the name patterns are tried in the order written, and for
\* each pattern only the earliest fact in list order whose name contains that
\* pattern (case-insensitively) is looked at, its fields in the order
\* written; the value is the first usable one found this way.  So a fact
\* matching an earlier pattern is preferred over an earlier-listed fact that
\* matches only a later pattern; and when no pattern's earliest match has a
\* usable field, no fact value is returned at all.
C3_FirstMatchPerPattern ==
    Enriched =>
        \A attr \in LookupAttrs :
            FromLookup(attr) =>
                /\ (\A p \in 1..Len(NamePatterns[attr]), f \in 1..Len(FieldPatterns[attr]) :
                    ( /\ Yields(ArgFacts, attr, p, f)
                      /\ \A q \in 1..Len(NamePatterns[attr]),
                            g \in 1..Len(FieldPatterns[attr]) :
                             (q < p \/ (q = p /\ g < f)) => ~Yields(ArgFacts, attr, q, g) )
                    => RetLeaves[attr] = FirstMatchField(ArgFacts, attr, p, f))
                /\ (\A p \in 1..Len(NamePatterns[attr]), f \in 1..Len(FieldPatterns[attr]) :
                        ~Yields(ArgFacts, attr, p, f))
                   => RetLeaves[attr] \in {Unknown} \cup {ArgMeta[i].v : i \in 1..Len(ArgMeta)}

\* an INDUSTRY fact listed before a HAS_INDUSTRY fact, the later one winning
C3_Witness ==
    /\ Enriched
    /\ FromLookup("industry")
    /\ Len(ArgFacts) = 2
    /\ Get(ArgFacts[1], "name", EmptyText) = <<"INDUSTRY">>
    /\ Get(ArgFacts[2], "name", EmptyText) = <<"HAS", "INDUSTRY">>
    /\ Usable(ArgFacts[1].target_node_name)
    /\ Usable(ArgFacts[2].content)
    /\ RetLeaves["industry"] = ArgFacts[2].content
    /\ RetLeaves["industry"] # ArgFacts[1].target_node_name

\* the facts matching TOW_TRUCK or VEHICLE that get_fact_value reads
TruckSource ==
    IF MatchPositions(ArgFacts, <<"TOW", "TRUCK">>) # {}
    THEN ArgFacts[Least(MatchPositions(ArgFacts, <<"TOW", "TRUCK">>))]
    ELSE ArgFacts[Least(MatchPositions(ArgFacts, <<"VEHICLE">>))]

\* C6 as stated: the model is parsed out of the matching fact's free text;
\* it is a part of a longer text, never the whole field copied unchanged.
C6_ModelParsedFromText ==
    (Enriched /\ AnyMatch(ArgFacts, "model") # {}
     /\ Len(Get(TruckSource, "content", Unknown)) > 1) =>
        /\ RetLeaves["model"] # TruckSource.content
        /\ Contains(TruckSource.content, RetLeaves["model"])

\* C6 amended: no parsing takes place; when the first fact matching
\* TOW_TRUCK (or, if none, VEHICLE) has a non-empty content other than
\* "Unknown", the model is that whole content copied unchanged.
C6_ModelIsWholeField ==
    (Enriched /\ AnyMatch(ArgFacts, "model") # {}
     /\ Usable(Get(TruckSource, "content", Unknown))) =>
        RetLeaves["model"] = TruckSource.content

\* a tow-truck fact whose content is a sentence, copied whole
C6_Witness ==
    /\ Enriched
    /\ AnyMatch(ArgFacts, "model") # {}
    /\ Get(TruckSource, "content", Unknown) = <<"owns", "F450", "truck">>
    /\ RetLeaves["model"] = <<"owns", "F450", "truck">>

\* a text made of blanks only (the empty text included)
Blank(text) == \A i \in 1..Len(text) : text[i] = " "

\* C7: without contact_first_name and contact_last_name in the metadata,
\* contact.owner is the value of the first fact matching HAS_CONTACT_ROLE or
\* OWNER, "Unknown" when there is none, and never empty or blank.
C7_OwnerFallsBackToFacts ==
    (Enriched /\ ~MetaHas(ArgMeta, <<"contact", "first", "name">>)
              /\ ~MetaHas(ArgMeta, <<"contact", "last", "name">>)) =>
        /\ ~Blank(RetLeaves["owner"])
        /\ AnyMatch(ArgFacts, "owner") = {} => RetLeaves["owner"] = Unknown
        /\ \A p \in 1..Len(NamePatterns["owner"]) :
               (Yields(ArgFacts, "owner", p, 1)
                /\ \A q \in 1..(p - 1) : MatchPositions(ArgFacts, NamePatterns["owner"][q]) = {})
               => RetLeaves["owner"] = FirstMatchField(ArgFacts, "owner", p, 1)

\* the metadata offers a value for the leaf: under one of its own keys, under
\* a key that contains one of its name patterns, or as a contact name
MetaOffers(metadata, leaf) ==
    \/ PatternsOf(leaf) \in DOMAIN MetaKeys /\ TruthyKeys(metadata, PatternsOf(leaf)) # {}
    \/ MetaHits(metadata, NamePatterns[PatternsOf(leaf)]) # {}
    \/ leaf = "owner" /\ (MetaHas(metadata, <<"contact", "first", "name">>)
                          \/ MetaHas(metadata, <<"contact", "last", "name">>))

\* C10: every leaf for which no fact's name matches a pattern and the
\* metadata offers no value is "Unknown".
C10_UnknownWhenNothingFound ==
    Enriched =>
        \A leaf \in LeafNames :
            (AnyMatch(ArgFacts, PatternsOf(leaf)) = {} /\ ~MetaOffers(ArgMeta, leaf))
            => RetLeaves[leaf] = Unknown

\* The same for every leaf but contact.owner
UnknownExceptOwner ==
    Enriched =>
        \A leaf \in LeafNames \ {"owner"} :
            (AnyMatch(ArgFacts, PatternsOf(leaf)) = {} /\ ~MetaOffers(ArgMeta, leaf))
            => RetLeaves[leaf] = Unknown

----------------------------------------------------------------------------
(* Properties of the pipeline, checked under Spec                          *)

\* the upstream GET of request r was answered with HTTP 200
Fetched200(r) == outcome[r].kind = "response" /\ outcome[r].status_code = 200

\* ainvoke of request r has returned
Finished(r) == pc[r] \in {"END", "done"}

C5_ErrorsAnswer500 ==
    \A r \in Requests :
        pc[r] = "done" =>
            /\ (resp[r].http_status = 200
                \/ Get(resp[r].body, "status", "None") = "success"
                \/ "business_summary" \in DOMAIN resp[r].body) => Fetched200(r)
            /\ ~Fetched200(r) =>
                /\ resp[r].http_status = 500
                /\ "business_summary" \notin DOMAIN resp[r].body
                /\ "detail" \in DOMAIN resp[r].body

\* an upstream 404 answered with a 500
C5_Witness ==
    \E r \in Requests :
        /\ pc[r] = "done"
        /\ outcome[r].status_code = 404
        /\ resp[r].http_status = 500
        /\ resp[r].body.detail =
               <<"Error retrieving user facts:", "User", user[r], "not found">>

\* C8: enrich_facts leaves a state whose status is not "success" as it is:
\* the user_id, status, error and timestamp of the failed fetch, and no
\* business_summary, facts, fact_count or processed_at.
C8_ErrorStateUnchanged ==
    [][\A r \in Requests :
          (pc[r] = "enrich_facts" /\ pc'[r] # "enrich_facts"
           /\ Get(st[r], "status", "None") # "success") =>
              /\ st'[r] = st[r]
              /\ DOMAIN st'[r] = {"user_id", "status", "error", "timestamp"}
              /\ st'[r].timestamp = Reading(r, "query_facts")]_vars

\* enrich_facts has run on the state of a failed fetch
C8_Witness ==
    \E r \in Requests :
        /\ pc[r] = "END"
        /\ enrichCount[r] = 1
        /\ ~Fetched200(r)
        /\ st[r] = [user_id |-> user[r], status |-> "error",
                    error |-> <<"Zep API error:", "overloaded">>,
                    timestamp |-> Reading(r, "query_facts")]

\* the fact list the Zep API holds for the user of request r
OwnFacts(r) == Get(zep[user[r]], "facts", <<>>)

\* C9: whatever the interleaving, each node of a request reads the state
\* that request wrote, and a successful response is computed from the facts
\* the Zep API holds for the request's own user id.
C9_OwnFactsOnly ==
    \A r \in Requests :
        /\ pc[r] = "query_facts" => st[r] = [user_id |-> user[r]]
        /\ (pc[r] = "enrich_facts" /\ Fetched200(r)) =>
               (st[r].user_id = user[r] /\ st[r].facts = zep[user[r]])
        /\ (pc[r] = "done" /\ Fetched200(r)) =>
            /\ resp[r].http_status = 200
            /\ resp[r].body.business_summary = business_info(OwnFacts(r))
            /\ resp[r].body.fact_count = Len(OwnFacts(r))

\* two requests for different users with different facts in flight together:
\* one enriched and not yet answered, the other fetched and not yet enriched
C9_Witness ==
    \E r, q \in Requests :
        /\ r # q
        /\ user[r] # user[q]
        /\ zep[user[r]] # zep[user[q]]
        /\ pc[r] = "END" /\ pc[q] = "enrich_facts"
        /\ Fetched200(r) /\ Fetched200(q)
        /\ st[r].fact_count = 2
        /\ st[r].business_summary = business_info(OwnFacts(r))
        /\ st[r].business_summary # business_info(OwnFacts(q))
        /\ Len(facts_list_of(st[q])) = 1

=============================================================================
